---- MODULE Spec2Model ----
(***************************************************************************)
(* The TTL cache of src/cache.py (class Cache, the get_product read path   *)
(* and the clear_cache endpoint) as a state machine.                       *)
(*                                                                         *)
(* Spec     drives the Cache object directly: set, get, delete, clear and  *)
(*          clock advances, in any order.                                  *)
(* SpecApp  drives the FastAPI endpoints: concurrent get_product requests  *)
(*          (suspended while they await the producer), clear_cache and     *)
(*          clock advances.                                                *)
(*                                                                         *)
(* Time is an integer number of seconds; datetime.utcnow() reads `now`.    *)
(* Python's None is the empty tuple, Optional[x] is None or <<x>>, a dict  *)
(* payload is a record.                                                    *)
(***************************************************************************)
EXTENDS Integers, Sequences, FiniteSets, TLC

VARIABLES
    store,  \* Cache._store: key -> [value, expires_at], a dict (partial map)
    now,    \* the clock datetime.utcnow() reads
    op,     \* the last direct call on the Cache object, with the clock it read
    ret,    \* what that call returned
    exc,    \* the exception that call raised ("none" when it returned)
    entry,  \* the local `entry` of the last Cache.get (None before a get runs)
    had,    \* whether the key of the last call was in the dict when it began
    req,    \* per caller: the get_product request it is running
    overlap,  \* the callers whose pending miss overlapped another caller's
              \* pending miss on the same key
    stale,  \* the callers whose producer call began before a clear_cache
            \* that has completed since
    thr,    \* per worker thread: the Cache call it is in the middle of
    requests,  \* RateLimiter.requests: ip -> [count, window_start]
    chk,    \* the last RateLimiter.check: its ip, clock and outcome
    notification_log,  \* the global list notification_log
    tasks,  \* the jobs added to BackgroundTasks, not yet started
    sending,  \* the send_notification calls suspended in their sleep
    sent,   \* how many send_notification calls have completed
    reply   \* the last answer of a notification endpoint

cacheSide == <<op, ret, exc, entry, had>>
appSide == <<req, overlap, stale>>
threadSide == <<thr>>
limiterSide == <<requests, chk>>
notifySide == <<notification_log, tasks, sending, sent, reply>>

vars == <<store, now, cacheSide, appSide, threadSide, limiterSide, notifySide>>

\* ---------------------------------------------------------------- bounds
NumProducts == 2    \* product ids 1..NumProducts
MaxTime == 2        \* the clock of Spec runs over 0..MaxTime
MaxTTL == 1         \* ttl arguments of a direct set run over -1..MaxTTL
MaxDelay == 1       \* the clock of SpecApp runs over 0..MaxDelay and over
                    \* ProductTTL..ProductTTL + MaxDelay

\* ------------------------------------------------------------- constants
ProductTTL == 30    \* cache.set(cache_key, product, ttl=30)

\* ---------------------------------------------------------------- values
None == << >>
Some(x) == <<x>>

ProductIds == 1..NumProducts
Callers == {"c1", "c2"}

\* cache_key = f"product:{product_id}"
CacheKey(product_id) == <<"product", product_id>>

\* the dict fetch_product_from_source returns; the price is kept in cents,
\* round(100 + product_id * 1.5, 2) * 100
Product(product_id) ==
    [id |-> product_id,
     name |-> <<"Product", product_id>>,
     price |-> 10000 + product_id * 150,
     source |-> "database"]

Keys == {CacheKey(i) : i \in ProductIds}
\* the two payloads a direct set stores
Values == {Product(1), Product(2)}
TTLs == {None} \cup {Some(t) : t \in (-1)..MaxTTL}

\* the instants the clock is read at, in Spec and in SpecApp
Times == 0..MaxTime
AppTimes == (0..MaxDelay) \cup (ProductTTL..(ProductTTL + MaxDelay))

EmptyStore == [k \in {} |-> None]

\* --------------------------------------------------------- class Cache
\* a missing ttl taken as a ttl of 0
ExpiresAtDefaultZero(ttl, t) == IF ttl /= None THEN Some(t + ttl[1]) ELSE Some(t)

\* the ttl argument dropped: nothing ever expires
ExpiresAtIgnoresTtl(ttl, t) == None

\* expires_at = None; if ttl is not None: expires_at = utcnow() + ttl
ExpiresAt(ttl, t) == IF ttl /= None THEN Some(t + ttl[1]) ELSE None

\* one second of grace after the expiry instant
ExpiredLate(expires_at, t) == expires_at /= None /\ t > expires_at[1] + 1

\* >= where the code has >
ExpiredAtInstant(expires_at, t) == expires_at /= None /\ t >= expires_at[1]

\* expires_at is not None and datetime.utcnow() > expires_at
Expired(expires_at, t) == expires_at /= None /\ t > expires_at[1]

\* a set without ttl keeps the expiry of the entry it overwrites
StoreSetKeepsExpiry(s, key, value, ttl, t) ==
    [k \in DOMAIN s \cup {key} |->
        IF k = key
        THEN [value |-> value,
              expires_at |-> IF ttl = None /\ key \in DOMAIN s
                             THEN s[key].expires_at
                             ELSE IF ttl /= None THEN Some(t + ttl[1]) ELSE None]
        ELSE s[k]]

\* self._store[key] = (value, expires_at)
StoreSet(s, key, value, ttl, t) ==
    [k \in DOMAIN s \cup {key} |->
        IF k = key THEN [value |-> value, expires_at |-> ExpiresAt(ttl, t)]
        ELSE s[k]]

\* pop(key) without the default: KeyError on a missing key
DeleteRaisesOnMissing(s, key) == key \notin DOMAIN s

\* self._store.pop(key, None): the default makes a missing key a no-op
DeleteRaises(s, key) == FALSE

StoreDelete(s, key) == [k \in DOMAIN s \ {key} |-> s[k]]

\* only the entries that carry an expiry are dropped
StoreClearKeepsPermanent(s) ==
    [k \in {j \in DOMAIN s : s[j].expires_at = None} |-> s[k]]

\* self._store.clear()
StoreClear(s) == EmptyStore

\* the lazy delete drops every expired entry, not only that of the key
CacheGetSweeps(s, key, t) ==
    IF key \notin DOMAIN s THEN [ret |-> None, store |-> s]
    ELSE IF s[key].expires_at /= None /\ t > s[key].expires_at[1]
         THEN [ret |-> None,
               store |-> [k \in {j \in DOMAIN s :
                                   \/ s[j].expires_at = None
                                   \/ t <= s[j].expires_at[1]} |-> s[k]]]
         ELSE [ret |-> s[key].value, store |-> s]

\* Cache.get: the value returned and the store it leaves. A stored entry is
\* a 2-tuple, always truthy, so `if not entry` is "key not in the dict".
CacheGet(s, key, t) ==
    IF key \notin DOMAIN s THEN [ret |-> None, store |-> s]
    ELSE IF Expired(s[key].expires_at, t)
         THEN [ret |-> None, store |-> StoreDelete(s, key)]
         ELSE [ret |-> s[key].value, store |-> s]

\* entry = self._store.get(key)
StoreGet(s, key) == IF key \in DOMAIN s THEN s[key] ELSE None

Call(name, key, value, ttl) ==
    [name |-> name, key |-> key, value |-> value, ttl |-> ttl, at |-> now]

\* the worker threads that call the Cache in parallel
Workers == {"w1", "w2"}

NoCall == [pc |-> "idle", key |-> None, entry |-> None, ret |-> None]

NoRequest ==
    [pc |-> "idle", product_id |-> 0, cached |-> None, calls |-> 0,
     response |-> None]

Init ==
    /\ store = EmptyStore
    /\ now = 0
    /\ op = [name |-> "none", key |-> None, value |-> None, ttl |-> None,
             at |-> 0]
    /\ ret = None
    /\ exc = "none"
    /\ entry = None
    /\ had = FALSE
    /\ req = [c \in Callers |-> NoRequest]
    /\ overlap = {}
    /\ stale = {}
    /\ thr = [w \in Workers |-> NoCall]
    /\ requests = EmptyStore
    /\ chk = [ip |-> "", at |-> 0, count |-> 0, window_start |-> 0,
              status |-> 0]
    /\ notification_log = << >>
    /\ tasks = << >>
    /\ sending = << >>
    /\ sent = 0
    /\ reply = [endpoint |-> "", request |-> None, status |-> 0,
                body |-> << >>]

\* a lock on the store kept by every caller suspended in the producer
HoldersAcrossAwait(rq) == {c \in Callers : rq[c].pc = "fetching"}

\* the callers that hold a lock on the store: neither Cache nor get_product
\* acquires one, so nobody ever does
LockHolders(rq) == {}

\* ------------------------------------------ direct calls on the Cache
Set(key, value, ttl) ==
    /\ LockHolders(req) = {}
    /\ store' = StoreSet(store, key, value, ttl, now)
    /\ op' = Call("set", key, value, ttl)
    /\ ret' = None
    /\ exc' = "none"
    /\ entry' = None
    /\ had' = (key \in DOMAIN store)
    /\ UNCHANGED <<now, appSide, threadSide, limiterSide, notifySide>>

Get(key) ==
    /\ LockHolders(req) = {}
    /\ store' = CacheGet(store, key, now).store
    /\ ret' = CacheGet(store, key, now).ret
    /\ op' = Call("get", key, None, None)
    /\ exc' = "none"
    /\ entry' = StoreGet(store, key)
    /\ had' = (key \in DOMAIN store)
    /\ UNCHANGED <<now, appSide, threadSide, limiterSide, notifySide>>

Delete(key) ==
    /\ LockHolders(req) = {}
    /\ IF DeleteRaises(store, key)
       THEN exc' = "KeyError" /\ store' = store
       ELSE exc' = "none" /\ store' = StoreDelete(store, key)
    /\ op' = Call("delete", key, None, None)
    /\ ret' = None
    /\ entry' = None
    /\ had' = (key \in DOMAIN store)
    /\ UNCHANGED <<now, appSide, threadSide, limiterSide, notifySide>>

Clear ==
    /\ LockHolders(req) = {}
    /\ store' = StoreClear(store)
    /\ op' = Call("clear", None, None, None)
    /\ ret' = None
    /\ exc' = "none"
    /\ entry' = None
    /\ had' = (DOMAIN store /= {})
    /\ UNCHANGED <<now, appSide, threadSide, limiterSide, notifySide>>

\* the clock moves forward to the instant t
Tick(t) ==
    /\ t > now
    /\ now' = t
    /\ UNCHANGED <<store, cacheSide, appSide, threadSide, limiterSide, notifySide>>

Next ==
    \/ \E key \in Keys, value \in Values, ttl \in TTLs : Set(key, value, ttl)
    \/ \E key \in Keys : Get(key)
    \/ \E key \in Keys : Delete(key)
    \/ Clear
    \/ \E t \in Times : Tick(t)

Spec == Init /\ [][Next]_vars

\* ------------------------------------------------- the FastAPI endpoints
\* `if cached is not None`
FromCache(cached) == cached /= None

\* {**payload, "from_cache": flag}
Response(payload, flag) == [body |-> payload, from_cache |-> flag]

\* the product is cached without a ttl
PopulateWithoutTtl(s, product_id, t) ==
    StoreSet(s, CacheKey(product_id), Product(product_id), None, t)

\* the product is cached only when its key is not in the dict
PopulateIfAbsent(s, product_id, t) ==
    IF CacheKey(product_id) \in DOMAIN s THEN s
    ELSE StoreSet(s, CacheKey(product_id), Product(product_id),
                  Some(ProductTTL), t)

\* cache.set(cache_key, product, ttl=30)
Populate(s, product_id, t) ==
    StoreSet(s, CacheKey(product_id), Product(product_id), Some(ProductTTL), t)

\* the failure swallowed and an empty result cached in its place
FailureCachesEmpty(s, product_id, t) ==
    StoreSet(s, CacheKey(product_id), None, Some(ProductTTL), t)

\* `await fetch_product_from_source(...)` raises (the sleep is cancelled, or
\* product_id * 1.5 overflows): nothing catches it, so cache.set never runs
StoreAfterFailure(s, product_id, t) == s

\* the callers suspended in the producer for product_id
Suspended(product_id) ==
    {d \in Callers : req[d].pc = "fetching" /\ req[d].product_id = product_id}

\* get_product up to its first suspension: the cache lookup, then either the
\* response from the cache or the call of the producer, which suspends
GetProduct(c, product_id) ==
    /\ req[c].pc /= "fetching"
    /\ LockHolders(req) \ {c} = {}
    /\ LET g == CacheGet(store, CacheKey(product_id), now) IN
       /\ store' = g.store
       /\ req' = [req EXCEPT ![c] =
             IF FromCache(g.ret)
             THEN [pc |-> "returned", product_id |-> product_id,
                   cached |-> g.ret, calls |-> 0,
                   response |-> Response(g.ret, TRUE)]
             ELSE [pc |-> "fetching", product_id |-> product_id,
                   cached |-> g.ret, calls |-> 1, response |-> None]]
       /\ overlap' =
             IF ~FromCache(g.ret) /\ Suspended(product_id) /= {}
             THEN overlap \cup {c} \cup Suspended(product_id)
             ELSE overlap \ {c}
    /\ stale' = stale \ {c}
    /\ UNCHANGED <<now, cacheSide, threadSide, limiterSide, notifySide>>

\* the producer returns: the product is cached and sent back
FetchReturn(c) ==
    /\ req[c].pc = "fetching"
    /\ LockHolders(req) \ {c} = {}
    /\ store' = Populate(store, req[c].product_id, now)
    /\ req' = [req EXCEPT ![c].pc = "returned",
                          ![c].response =
                              Response(Product(req[c].product_id), FALSE)]
    /\ UNCHANGED <<now, overlap, stale, cacheSide, threadSide, limiterSide, notifySide>>

\* the producer raises: the exception leaves get_product
FetchRaise(c) ==
    /\ req[c].pc = "fetching"
    /\ store' = StoreAfterFailure(store, req[c].product_id, now)
    /\ req' = [req EXCEPT ![c].pc = "raised"]
    /\ UNCHANGED <<now, overlap, stale, cacheSide, threadSide, limiterSide, notifySide>>

\* POST /cache/clear
ClearCache ==
    /\ LockHolders(req) = {}
    /\ store' = StoreClear(store)
    /\ stale' = {c \in Callers : req[c].pc = "fetching"}
    /\ UNCHANGED <<now, req, overlap, cacheSide, threadSide, limiterSide, notifySide>>

NextApp ==
    \/ \E c \in Callers, product_id \in ProductIds : GetProduct(c, product_id)
    \/ \E c \in Callers : FetchReturn(c)
    \/ \E c \in Callers : FetchRaise(c)
    \/ ClearCache
    \/ \E t \in AppTimes : Tick(t)

SpecApp == Init /\ [][NextApp]_vars

\* ------------------------------------- the Cache called from worker threads
\* Cache takes no lock, so between two of its statements another thread may
\* run. Cache.get is three steps: the dict lookup, the clock read with the
\* expiry test, and the lazy delete. set and delete are one dict operation.

\* entry = self._store.get(key); if not entry: return None
ThreadGetRead(w, key) ==
    /\ thr[w].pc = "idle"
    /\ thr' = [thr EXCEPT ![w] =
          IF key \in DOMAIN store
          THEN [pc |-> "read", key |-> key, entry |-> store[key], ret |-> None]
          ELSE [pc |-> "idle", key |-> key, entry |-> None, ret |-> None]]
    /\ UNCHANGED <<store, now, cacheSide, appSide, limiterSide, notifySide>>

\* if expires_at is not None and datetime.utcnow() > expires_at: ...
\* return value
ThreadGetCheck(w) ==
    /\ thr[w].pc = "read"
    /\ thr' = [thr EXCEPT ![w] =
          IF Expired(thr[w].entry.expires_at, now)
          THEN [pc |-> "expired", key |-> thr[w].key, entry |-> None,
                ret |-> None]
          ELSE [pc |-> "idle", key |-> thr[w].key, entry |-> None,
                ret |-> thr[w].entry.value]]
    /\ UNCHANGED <<store, now, cacheSide, appSide, limiterSide, notifySide>>

\* self.delete(key); return None
ThreadGetDelete(w) ==
    /\ thr[w].pc = "expired"
    /\ store' = StoreDelete(store, thr[w].key)
    /\ thr' = [thr EXCEPT ![w].pc = "idle"]
    /\ UNCHANGED <<now, cacheSide, appSide, limiterSide, notifySide>>

ThreadSet(w, key, value, ttl) ==
    /\ thr[w].pc = "idle"
    /\ store' = StoreSet(store, key, value, ttl, now)
    /\ thr' = [thr EXCEPT ![w] = [NoCall EXCEPT !.key = key]]
    /\ UNCHANGED <<now, cacheSide, appSide, limiterSide, notifySide>>

ThreadDelete(w, key) ==
    /\ thr[w].pc = "idle"
    /\ store' = StoreDelete(store, key)
    /\ thr' = [thr EXCEPT ![w] = [NoCall EXCEPT !.key = key]]
    /\ UNCHANGED <<now, cacheSide, appSide, limiterSide, notifySide>>

NextThreads ==
    \/ \E w \in Workers, key \in Keys : ThreadGetRead(w, key)
    \/ \E w \in Workers : ThreadGetCheck(w)
    \/ \E w \in Workers : ThreadGetDelete(w)
    \/ \E w \in Workers, key \in Keys, value \in Values, ttl \in TTLs :
          ThreadSet(w, key, value, ttl)
    \/ \E w \in Workers, key \in Keys : ThreadDelete(w, key)
    \/ \E t \in Times : Tick(t)

SpecThreads == Init /\ [][NextThreads]_vars

\* ------------------------------------------------ class RateLimiter
\* rate_limiter = RateLimiter(limit=10, window_seconds=60)
Limit == 10
WindowSeconds == 60

\* request.client.host of the clients
Clients == {"10.0.0.1", "10.0.0.2"}

\* the instants datetime.now() is read at in SpecLimiter
LimiterTimes ==
    (0..MaxDelay) \cup (WindowSeconds..(WindowSeconds + MaxDelay))

\* > where the code has >=
WindowExpiredLate(elapsed) == elapsed > WindowSeconds

\* if elapsed >= self.window
WindowExpired(elapsed) == elapsed >= WindowSeconds

\* > where the code has >=
LimitReachedLate(count) == count > Limit

\* if count >= self.limit
LimitReached(count) == count >= Limit

\* self.requests[client_ip] = (count, window_start)
Record(rq, ip, count, window_start) ==
    [i \in DOMAIN rq \cup {ip} |->
        IF i = ip THEN [count |-> count, window_start |-> window_start]
        ELSE rq[i]]

\* a rejected request restarts the window of its client
RejectionRestartsWindow(rq, ip, t) == Record(rq, ip, rq[ip].count, t)

\* raise HTTPException(status_code=429, ...): the dict is not written
Rejected(rq, ip, t) == rq

\* RateLimiter.check at clock t: the dict it leaves and the status code of
\* the HTTPException it raises (0 when it returns)
CheckOutcome(rq, ip, t) ==
    IF ip \notin DOMAIN rq
    THEN [requests |-> Record(rq, ip, 1, t), status |-> 0]
    ELSE IF WindowExpired(t - rq[ip].window_start)
    THEN [requests |-> Record(rq, ip, 1, t), status |-> 0]
    ELSE IF LimitReached(rq[ip].count)
    THEN [requests |-> Rejected(rq, ip, t), status |-> 429]
    ELSE [requests |->
              Record(rq, ip, rq[ip].count + 1, rq[ip].window_start),
          status |-> 0]

\* rate_limiter.check(request) for a request of client ip; chk keeps the
\* locals count and window_start (0 on the first request of the client)
Check(ip) ==
    /\ requests' = CheckOutcome(requests, ip, now).requests
    /\ chk' = [ip |-> ip, at |-> now,
               count |-> IF ip \in DOMAIN requests
                         THEN requests[ip].count ELSE 0,
               window_start |-> IF ip \in DOMAIN requests
                                THEN requests[ip].window_start ELSE 0,
               status |-> CheckOutcome(requests, ip, now).status]
    /\ UNCHANGED <<store, now, cacheSide, appSide, threadSide, notifySide>>

NextLimiter ==
    \/ \E ip \in Clients : Check(ip)
    \/ \E t \in LimiterTimes : Tick(t)

SpecLimiter == Init /\ [][NextLimiter]_vars

\* ------------------------------------------- the notification endpoints
MaxJobs == 3    \* send_notification calls started in one run

Emails == {"a@example.com", "b@example.com"}
Messages == {"Welcome", "Goodbye"}

\* a validated NotifyRequestModel
NotifyRequestModel(email, message) == [email |-> email, message |-> message]

\* request['email']: NotifyRequestModel is a pydantic BaseModel, which
\* defines no __getitem__, so the subscript raises TypeError
Subscriptable(request) == FALSE

\* POST /notify with a valid body: the handler runs up to its first raise
\* or to its return. tasks holds what backgroundtask.add_task has queued.
Notify(email, message) ==
    LET request == NotifyRequestModel(email, message) IN
    /\ IF Subscriptable(request)
       THEN /\ tasks' = Append(tasks, <<request.email, request.message>>)
            /\ reply' = [endpoint |-> "notify", request |-> request,
                         status |-> 200,
                         body |-> <<"Notification scheduled">>]
       ELSE /\ tasks' = tasks
            /\ reply' = [endpoint |-> "notify", request |-> request,
                         status |-> 500, body |-> <<"TypeError">>]
    /\ UNCHANGED <<notification_log, sending, sent>>
    /\ UNCHANGED <<store, now, cacheSide, appSide, threadSide, limiterSide>>

\* send_notification(email, message) is called and suspends in
\* asyncio.sleep(10)
SendNotificationStart(email, message) ==
    /\ Len(sending) + sent < MaxJobs
    /\ sending' = Append(sending, <<email, message>>)
    /\ UNCHANGED <<notification_log, tasks, sent, reply>>
    /\ UNCHANGED <<store, now, cacheSide, appSide, threadSide, limiterSide>>

\* the sleep of the i-th suspended call is over: print, return True
SendNotificationDone(i) ==
    /\ i \in 1..Len(sending)
    /\ sending' = SubSeq(sending, 1, i - 1) \o
                  SubSeq(sending, i + 1, Len(sending))
    /\ sent' = sent + 1
    /\ UNCHANGED <<notification_log, tasks, reply>>
    /\ UNCHANGED <<store, now, cacheSide, appSide, threadSide, limiterSide>>

\* GET /notifications
GetNotificationLog ==
    /\ reply' = [endpoint |-> "notifications", request |-> None,
                 status |-> 200, body |-> notification_log]
    /\ UNCHANGED <<notification_log, tasks, sending, sent>>
    /\ UNCHANGED <<store, now, cacheSide, appSide, threadSide, limiterSide>>

NextNotify ==
    \/ \E email \in Emails, message \in Messages : Notify(email, message)
    \/ \E email \in Emails, message \in Messages :
          SendNotificationStart(email, message)
    \/ \E i \in 1..MaxJobs : SendNotificationDone(i)
    \/ GetNotificationLog

SpecNotify == Init /\ [][NextNotify]_vars

\* ------------------------------------------------ properties of Cache
\* In Spec a step that leaves `now` alone and changes a variable is one
\* direct call, described by op'; a step that changes `now` is a Tick.
CallStep(name) == now' = now /\ op'.name = name

\* C1: Cache.get never returns a value whose entry has an expiry instant
\* strictly earlier than the clock read by that get; an entry still in the
\* dict but expired is reported as None.
C1_GetNeverReturnsExpired ==
    [][CallStep("get") =>
        LET k == op'.key IN
        /\ ret' /= None =>
              /\ k \in DOMAIN store
              /\ ret' = store[k].value
              /\ \/ store[k].expires_at = None
                 \/ store[k].expires_at[1] >= now'
        /\ (/\ k \in DOMAIN store
            /\ store[k].expires_at /= None
            /\ store[k].expires_at[1] < now') => ret' = None]_vars

\* a get found an entry whose expiry lies before the clock and returned None
C1_Witness ==
    /\ op.name = "get"
    /\ entry /= None
    /\ entry.expires_at /= None
    /\ entry.expires_at[1] < op.at
    /\ ret = None

\* C2: a get that follows set(k, v, t), t > 0, with only clock advances in
\* between returns v while the clock has not passed set-time + t; once the
\* clock has passed set-time + t it returns None and the key is gone from
\* the dict after that get.
C2_TtlThenExpiry ==
    [][(/\ op.name = "set"
        /\ op.ttl /= None
        /\ op.ttl[1] > 0
        /\ CallStep("get")
        /\ op'.key = op.key) =>
            IF now' > op.at + op.ttl[1]
            THEN ret' = None /\ op.key \notin DOMAIN store'
            ELSE ret' = op.value]_vars

\* a get found an entry past its expiry, returned None and removed the key
C2_Witness ==
    /\ op.name = "get"
    /\ had
    /\ entry.expires_at /= None
    /\ op.at > entry.expires_at[1]
    /\ entry.expires_at[1] >= 1
    /\ ret = None
    /\ op.key \notin DOMAIN store

\* C3: after set(k, v, ttl) with ttl <= 0 the very next get(k), whatever the
\* clock reads, returns None and removes the entry.
C3_NonPositiveTtlAbsent ==
    [][(/\ op.name = "set"
        /\ op.ttl /= None
        /\ op.ttl[1] <= 0
        /\ CallStep("get")
        /\ op'.key = op.key) =>
            ret' = None /\ op.key \notin DOMAIN store']_vars

\* C4: the expiry test is strictly greater-than: a get at the exact expiry
\* instant returns the stored value and leaves the dict as it is; a get at
\* any later instant returns None.
C4_ValidThroughExpiryInstant ==
    [][(/\ CallStep("get")
        /\ op'.key \in DOMAIN store
        /\ store[op'.key].expires_at /= None) =>
            LET e == store[op'.key].expires_at[1] IN
            /\ now' = e => (ret' = store[op'.key].value /\ store' = store)
            /\ now' > e => ret' = None]_vars

\* a get at the exact expiry instant returned the value and kept the entry
C4_Witness ==
    /\ op.name = "get"
    /\ entry /= None
    /\ entry.expires_at = Some(op.at)
    /\ ret = entry.value
    /\ op.key \in DOMAIN store
    /\ store[op.key] = entry

\* C5: an entry stored without a TTL is returned by every get, after any
\* clock advance, until a set, delete or clear touches its key: no step
\* other than those changes it.
C5_NoTtlNeverExpires ==
    [][/\ (/\ op.name = "set"
           /\ op.ttl = None
           /\ CallStep("get")
           /\ op'.key = op.key) => ret' = op.value
       /\ \A k \in DOMAIN store :
            (/\ store[k].expires_at = None
             /\ ~(CallStep("set") /\ op'.key = k)
             /\ ~(CallStep("delete") /\ op'.key = k)
             /\ ~CallStep("clear")) =>
                /\ k \in DOMAIN store'
                /\ store'[k] = store[k]
                /\ (CallStep("get") /\ op'.key = k) =>
                        ret' = store[k].value]_vars

\* a get at a later clock returned the value of an entry without expiry
C5_Witness ==
    /\ op.name = "get"
    /\ entry /= None
    /\ entry.expires_at = None
    /\ op.at = MaxTime
    /\ ret = entry.value

\* C6: a set replaces the entry of its key entirely: the new value, and an
\* expiry that depends only on the clock and the ttl of this set (none when
\* the ttl is omitted); the entries of the other keys are unchanged.
C6_SetReplacesEntry ==
    [][CallStep("set") =>
        LET k == op'.key IN
        /\ DOMAIN store' = DOMAIN store \cup {k}
        /\ store'[k].value = op'.value
        /\ store'[k].expires_at =
              (IF op'.ttl = None THEN None ELSE Some(now' + op'.ttl[1]))
        /\ \A j \in DOMAIN store \ {k} : store'[j] = store[j]]_vars

\* a set without ttl overwrote an existing entry, another key being cached
C6_Witness ==
    /\ op.name = "set"
    /\ had
    /\ op.ttl = None
    /\ store[op.key] = [value |-> op.value, expires_at |-> None]
    /\ Cardinality(DOMAIN store) >= 2

\* C7: delete never raises; it removes its key and nothing else; on a key
\* without entry it leaves the dict unchanged, so a second delete of the
\* same key changes nothing.
C7_DeleteIdempotent ==
    [][CallStep("delete") =>
        LET k == op'.key IN
        /\ exc' = "none"
        /\ DOMAIN store' = DOMAIN store \ {k}
        /\ \A j \in DOMAIN store' : store'[j] = store[j]
        /\ k \notin DOMAIN store => store' = store
        /\ (op.name = "delete" /\ op.key = k) => store' = store]_vars

\* a delete of a key without entry returned normally, other keys cached
C7_Witness ==
    /\ op.name = "delete"
    /\ ~had
    /\ exc = "none"
    /\ DOMAIN store /= {}

\* C8: clear leaves the dict empty, and a key that is not in the dict stays
\* out of it, every get on it returning None, until a set on that key.
C8_ClearEmpties ==
    [][/\ CallStep("clear") => store' = EmptyStore
       /\ (op.name = "clear" /\ CallStep("get")) => ret' = None
       /\ \A k \in Keys :
            (k \notin DOMAIN store /\ ~(CallStep("set") /\ op'.key = k)) =>
                /\ k \notin DOMAIN store'
                /\ (CallStep("get") /\ op'.key = k) => ret' = None]_vars

\* a clear ran on a dict that held entries and left it empty
C8_Witness ==
    /\ op.name = "clear"
    /\ had
    /\ store = EmptyStore

\* --------------------------------------------- properties of get_product
\* the entry of key k is in the dict and not past its expiry at clock t
Live(s, k, t) ==
    /\ k \in DOMAIN s
    /\ (s[k].expires_at = None \/ s[k].expires_at[1] >= t)

\* C9: get_product answers from the cache (from_cache True, no producer
\* call, dict untouched) exactly when the key's entry is live at the lookup;
\* otherwise it calls the producer once and, when the producer returns,
\* stores the product under the same key with expiry now + 30 and answers
\* from_cache False.
C9_CacheAside ==
    [][\A c \in Callers :
        LET k == CacheKey(req'[c].product_id) IN
        /\ (req[c].pc /= "fetching" /\ req'[c] /= req[c]) =>
              IF Live(store, k, now)
              THEN /\ req'[c].pc = "returned"
                   /\ req'[c].response =
                        [body |-> store[k].value, from_cache |-> TRUE]
                   /\ req'[c].calls = 0
                   /\ store' = store
              ELSE /\ req'[c].pc = "fetching"
                   /\ req'[c].calls = 1
                   /\ req'[c].response = None
                   /\ k \notin DOMAIN store'
        /\ (req[c].pc = "fetching" /\ req'[c].pc = "returned") =>
              /\ req'[c].product_id = req[c].product_id
              /\ req'[c].calls = 1
              /\ req'[c].response =
                    [body |-> Product(req[c].product_id),
                     from_cache |-> FALSE]
              /\ DOMAIN store' = DOMAIN store \cup {k}
              /\ store'[k] = [value |-> Product(req[c].product_id),
                              expires_at |-> Some(now + 30)]
              /\ \A j \in DOMAIN store \ {k} : store'[j] = store[j]]_vars

\* one caller was answered from the source, the other from the cache
C9_Witness ==
    \E c, d \in Callers :
        /\ req[c].pc = "returned"
        /\ req[c].response.from_cache = FALSE
        /\ req[c].calls = 1
        /\ req[d].pc = "returned"
        /\ req[d].response.from_cache = TRUE
        /\ req[d].calls = 0

\* C10: when the producer fails the request ends with the exception, no
\* response is built and the dict is left exactly as it was.
C10_FailureNotCached ==
    [][\A c \in Callers :
        (req[c].pc = "fetching" /\ req'[c].pc /= "returned"
                                /\ req'[c] /= req[c]) =>
            /\ req'[c].pc = "raised"
            /\ req'[c].response = None
            /\ store' = store]_vars

\* a request ended with the producer's failure and its key is still a miss
C10_Witness ==
    \E c \in Callers :
        /\ req[c].pc = "raised"
        /\ req[c].response = None
        /\ CacheKey(req[c].product_id) \notin DOMAIN store

\* ------------------------------------------- properties under threads
\* C11: get, set and delete on one key are linearizable under parallel
\* worker threads: in particular the lazy delete of a Cache.get never
\* removes a live entry, one that a set wrote after the get read the dict.
C11_LazyDeleteSparesLiveEntry ==
    [][\A w \in Workers :
        (thr[w].pc = "expired" /\ thr'[w].pc = "idle") =>
            ~Live(store, thr[w].key, now)]_vars

\* ------------------------------------------- properties of RateLimiter
\* In SpecLimiter a step that leaves `now` alone and changes a variable is
\* one check, described by chk'.
CheckStep == now' = now /\ <<requests, chk>>' /= <<requests, chk>>

\* the window of client ip is live at the clock
LiveWindow(ip) ==
    ip \in DOMAIN requests /\ now - requests[ip].window_start < WindowSeconds

\* C12: the count stored for a client is always between 1 and the limit; a
\* request in a live window is accepted only below the limit, and one that
\* finds the count at the limit is rejected with status 429.
C12_AtMostLimitPerWindow ==
    [][CheckStep =>
        /\ \A i \in DOMAIN requests' :
              requests'[i].count >= 1 /\ requests'[i].count <= Limit
        /\ (LiveWindow(chk'.ip) /\ requests[chk'.ip].count = Limit) =>
              chk'.status = 429
        /\ (LiveWindow(chk'.ip) /\ chk'.status = 0) =>
              requests[chk'.ip].count < Limit]_vars

\* a request that found the count at the limit in a live window got 429
C12_Witness ==
    /\ chk.status = 429
    /\ chk.count = Limit
    /\ chk.at - chk.window_start < WindowSeconds
    /\ requests[chk.ip].count = Limit

\* C13: a request arriving when now - windowStart >= window is accepted,
\* whatever the count was, and restarts the window with count 1 and
\* windowStart = now; a request accepted inside a live window increments
\* the count and leaves windowStart unchanged.
C13_WindowReset ==
    [][CheckStep =>
        LET ip == chk'.ip IN
        /\ (ip \in DOMAIN requests /\ ~LiveWindow(ip)) =>
              /\ chk'.status = 0
              /\ requests'[ip] = [count |-> 1, window_start |-> now]
        /\ (LiveWindow(ip) /\ chk'.status = 0) =>
              requests'[ip] =
                 [count |-> requests[ip].count + 1,
                  window_start |-> requests[ip].window_start]]_vars

\* a request exactly at the window boundary, the window exhausted, was
\* accepted and restarted the window
C13_Witness ==
    /\ chk.status = 0
    /\ chk.count = Limit
    /\ chk.at - chk.window_start = WindowSeconds
    /\ requests[chk.ip] = [count |-> 1, window_start |-> chk.at]

\* C20: a rejected check leaves the whole dict unchanged, and any check
\* changes at most the entry of the calling client.
C20_RejectionWritesNothing ==
    [][CheckStep =>
        /\ chk'.status = 429 => requests' = requests
        /\ DOMAIN requests' = DOMAIN requests \cup {chk'.ip}
        /\ \A j \in DOMAIN requests \ {chk'.ip} :
              requests'[j] = requests[j]]_vars

\* a client was rejected while the other client is below the limit
C20_Witness ==
    /\ chk.status = 429
    /\ requests[chk.ip] =
          [count |-> Limit, window_start |-> chk.window_start]
    /\ \E j \in DOMAIN requests : j /= chk.ip /\ requests[j].count < Limit

\* ------------------------------------- properties of the notifications
\* C14: every valid POST /notify queues exactly one job carrying its
\* recipient and message and answers its confirmation at once.
C14_NotifySchedulesOneJob ==
    [][(reply' /= reply /\ reply'.endpoint = "notify") =>
        /\ tasks' = Append(tasks, <<reply'.request.email,
                                    reply'.request.message>>)
        /\ reply'.status = 200
        /\ reply'.body = <<"Notification scheduled">>]_vars

\* C15: notification_log holds one entry per completed notification job.
C15_LogHoldsCompletedJobs == Len(notification_log) = sent

\* ------------------------------------ concurrent get_product requests
\* C16: when two callers miss on the same key at the same time there is no
\* deduplication: each has its own producer call, each stores its result,
\* and the entry left is the one written by the set that runs second.
C16_SecondWriteWins ==
    [][\A c, d \in Callers :
        /\ (/\ c /= d
            /\ req[c].pc = "fetching"
            /\ req[d].pc = "fetching"
            /\ req[c].product_id = req[d].product_id) =>
                req[c].calls = 1 /\ req[d].calls = 1
        /\ (/\ c /= d
            /\ c \in overlap
            /\ d \in overlap
            /\ req[c].pc = "fetching"
            /\ req'[c].pc = "returned"
            /\ req[d].pc = "returned"
            /\ req[d].product_id = req[c].product_id) =>
                /\ req[d].calls = 1
                /\ req'[c].calls = 1
                /\ req[d].response.from_cache = FALSE
                /\ req'[c].response.from_cache = FALSE
                /\ store'[CacheKey(req[c].product_id)] =
                      [value |-> Product(req[c].product_id),
                       expires_at |-> Some(now + 30)]]_vars

\* two callers missed together on one key and both were answered from the
\* source; the entry carries the expiry of the later set
C16_Witness ==
    \E c, d \in Callers :
        /\ c /= d
        /\ c \in overlap
        /\ d \in overlap
        /\ req[c].pc = "returned"
        /\ req[d].pc = "returned"
        /\ req[c].product_id = req[d].product_id
        /\ req[c].calls = 1
        /\ req[d].calls = 1
        /\ CacheKey(req[c].product_id) \in DOMAIN store
        /\ store[CacheKey(req[c].product_id)].expires_at = Some(now + 30)
        /\ now > 0

\* C17: no lock on the store is held across the producer call: while a
\* caller is suspended in the producer every Cache call and every endpoint
\* step of another caller, on the same key or another, is enabled.
C17_NoLockAcrossAwait ==
    \A c \in Callers :
        req[c].pc = "fetching" =>
            /\ ENABLED ClearCache
            /\ ENABLED Clear
            /\ \A k \in Keys :
                  /\ ENABLED Get(k)
                  /\ ENABLED Delete(k)
                  /\ \A v \in Values, ttl \in TTLs : ENABLED Set(k, v, ttl)
            /\ \A d \in Callers \ {c} :
                  /\ req[d].pc = "fetching" => ENABLED FetchReturn(d)
                  /\ req[d].pc /= "fetching" =>
                        \A id \in ProductIds : ENABLED GetProduct(d, id)

\* a clear_cache completed while a caller was suspended in the producer,
\* and the other caller was answered since
C17_Witness ==
    \E c, d \in Callers :
        /\ req[c].pc = "fetching"
        /\ c \in stale
        /\ d \notin stale
        /\ req[d].pc = "returned"

\* C18: a get that hits, or finds no entry, leaves the dict unchanged; a
\* get that finds an expired entry removes that key only and returns None;
\* a get repeated after a get that returned None returns None again,
\* raises nothing and leaves the dict as the first get left it.
C18_GetWritesAtMostOnce ==
    [][CallStep("get") =>
        LET k == op'.key IN
        /\ exc' = "none"
        /\ (k \notin DOMAIN store \/ Live(store, k, now)) => store' = store
        /\ (k \in DOMAIN store /\ ~Live(store, k, now)) =>
              /\ ret' = None
              /\ DOMAIN store' = DOMAIN store \ {k}
              /\ \A j \in DOMAIN store' : store'[j] = store[j]
        /\ (op.name = "get" /\ op.key = k /\ ret = None) =>
              ret' = None /\ store' = store]_vars

\* a get removed its expired key and left another expired entry in place
C18_Witness ==
    /\ op.name = "get"
    /\ had
    /\ ret = None
    /\ op.key \notin DOMAIN store
    /\ \E j \in DOMAIN store :
          /\ store[j].expires_at /= None
          /\ store[j].expires_at[1] < op.at

\* C19: a clear_cache is not undone by a population in flight: a
\* get_product whose producer call began before a completed clear_cache
\* does not insert its key when it resumes.
C19_ClearNotUndone ==
    [][\A c \in Callers :
        (c \in stale /\ req[c].pc = "fetching" /\ req'[c].pc = "returned") =>
            CacheKey(req[c].product_id) \notin DOMAIN store']_vars

====
